---- MODULE Spec2Model ----
(***************************************************************************)
(* State-machine model of milvus::knowhere::IndexAnnoy                     *)
(* (core/src/index/knowhere/knowhere/index/vector_index/IndexAnnoy.cpp),   *)
(* followed by the parallel loop of its Query (SpecPar) and by             *)
(* milvus::server::DescribeTableRequest (SpecDescribe).                    *)
(*                                                                         *)
(* One IndexAnnoy object is modelled: its members index_, metric_type_,    *)
(* index_size_ and the blacklist returned by GetBlacklist().  Every public *)
(* method is one atomic action; `ret` holds what the last call handed back *)
(* to its caller (a value, or the exception it threw).                     *)
(*                                                                         *)
(* std::string values are sequences of one-character strings so that the   *)
(* length of a string and every byte of it, including a trailing NUL byte, *)
(* are part of the value that operator== compares.                         *)
(***************************************************************************)
EXTENDS Integers, Sequences, FiniteSets, TLC

VARIABLES index_, metric_type_, index_size_, bitset_, ret, omp, request

vars == <<index_, metric_type_, index_size_, bitset_, ret, omp, request>>

----------------------------------------------------------------------------
(* Bounds of the model.                                                    *)

MaxTrees == 2
MaxTopK == 2

----------------------------------------------------------------------------
(* Program constants.                                                      *)

\* sizeof(float) in IndexSize()
SizeofFloat == 4
\* stands for the float +infinity: above every distance of the model
PosInf == 1000
\* the initial value of index_size_ that IndexSize() tests for
NoIndexSize == -1

\* a std::shared_ptr is the empty sequence (nullptr) or <<object>>
NULL == <<>>
\* the char '\0'
NUL == "NUL"
\* a json config entry read as type T is <<v>> when it holds the T value v, and
\* <<>> when it holds a value of another json type (the read throws type_error)
NoValue == <<>>

\* knowhere::Metric::L2 and knowhere::Metric::IP
MetricL2 == <<"L", "2">>
MetricIP == <<"I", "P">>

----------------------------------------------------------------------------
(* std::string operations used by Load.                                    *)

\* std::string::resize(n): truncates, or pads with value-initialised chars
resize(s, n) ==
    IF n <= Len(s) THEN SubSeq(s, 1, n)
    ELSE s \o [i \in 1..(n - Len(s)) |-> NUL]

\* memcpy(s.data(), bytes, Len(bytes)): overwrites the first Len(bytes) chars
memcpy(s, bytes) ==
    [i \in 1..Len(s) |-> IF i <= Len(bytes) THEN bytes[i] ELSE s[i]]

----------------------------------------------------------------------------
(* Small arithmetic and sequence helpers.                                  *)

RECURSIVE SumTo(_, _)
SumTo(f, n) == IF n = 0 THEN 0 ELSE f[n] + SumTo(f, n - 1)

Min(a, b) == IF a <= b THEN a ELSE b

----------------------------------------------------------------------------
(* The AnnoyIndex<int64_t, float, Distance, Kiss64Random> object behind    *)
(* index_.  annoylib.h is not part of the sources at hand; the object is   *)
(* modelled from the specification's data model: a metric variant, a       *)
(* dimension, the stored items (id + vector) and the number of trees.      *)

Euclidean == "Euclidean"
DotProduct == "DotProduct"

\* std::make_shared<AnnoyIndex<..., Distance, ...>>(dim)
AnnoyIndex(variant, dim) ==
    [variant |-> variant, f |-> dim, items |-> <<>>, n_trees |-> 0]

\* index_->add_item(id, vector)
add_item(ix, id, w) ==
    [ix EXCEPT !.items = Append(@, [id |-> id, vector |-> w])]

\* index_->build(q)
build(ix, q) == [ix EXCEPT !.n_trees = q]

\* index_->get_n_items()
get_n_items(ix) == Len(ix.items)

\* index_->get_dim()
get_dim(ix) == ix.f

\* index_->get_index() / get_index_length(): the opaque index_data region:
\* item count, the id + vector rows, the trees
get_index(ix) ==
    [count |-> Len(ix.items), items |-> ix.items, n_trees |-> ix.n_trees]

\* structural validation of an index_data region against the dimension
WellFormed(data, dim) ==
    /\ data.count = Len(data.items)
    /\ \A i \in 1..Len(data.items) : Len(data.items[i].vector) = dim

\* index_->load_index(data, size, &err): TRUE/FALSE and the object afterwards
load_index(ix, data) ==
    IF WellFormed(data, ix.f)
    THEN [ok |-> TRUE,
          ix |-> [ix EXCEPT !.items = data.items, !.n_trees = data.n_trees]]
    ELSE [ok |-> FALSE, ix |-> ix]

\* the distance of the metric variant
Distance(variant, a, b) ==
    IF variant = Euclidean
    THEN SumTo([i \in 1..Len(a) |-> (a[i] - b[i]) * (a[i] - b[i])], Len(a))
    ELSE 0 - SumTo([i \in 1..Len(a) |-> a[i] * b[i]], Len(a))

----------------------------------------------------------------------------
(* Inputs of the calls.                                                    *)

\* row i (0-based) of a row-major tensor: dim floats from offset dim * i;
\* a read past the end of the buffer yields the float g
Row(tensor, dim, off, g) ==
    [j \in 1..dim |-> IF off + j <= Len(tensor) THEN tensor[off + j] ELSE g]

\* datasets handed to BuildAll: dim, rows, ids, row-major tensor
Datasets ==
    { [dim |-> 1, rows |-> 2, ids |-> <<1, 2>>, tensor |-> <<0, 2>>],
      [dim |-> 2, rows |-> 2, ids |-> <<1, 3>>, tensor |-> <<0, 0, 1, 1>>],
      [dim |-> 1, rows |-> 1, ids |-> <<2>>, tensor |-> <<1>>] }

\* config[Metric::TYPE]: a metric name, or a value that is no string
ConfigMetrics ==
    { <<MetricL2>>, <<MetricIP>>, <<<<"X", "2">>>>,
      <<<<"c", "o", "s", "i", "n", "e">>>>, NoValue }

\* config[IndexParams::n_trees]: an integer, or a value that is no integer
ConfigTrees == {<<n>> : n \in 1..MaxTrees} \cup {NoValue}

BuildConfigs == [metric_type : ConfigMetrics, n_trees : ConfigTrees]

\* index_data regions: what get_index() yields for an index over a dataset,
\* with no tree built or with all of them, and a region truncated by its last
\* item row
ItemsOf(ds) ==
    [i \in 1..ds.rows |->
        [id |-> ds.ids[i], vector |-> Row(ds.tensor, ds.dim, ds.dim * (i - 1), 0)]]

Truncated(data) ==
    [data EXCEPT !.items = SubSeq(@, 1, Len(@) - 1)]

Regions ==
    LET whole == { [count |-> ds.rows, items |-> ItemsOf(ds), n_trees |-> n] :
                      ds \in Datasets, n \in {0, MaxTrees} }
    IN  whole \cup { Truncated(r) : r \in {w \in whole : w.n_trees = 0} }

\* bytes of the annoy_metric_type section
BlobMetrics == { MetricL2, MetricIP, <<"L">>, <<"I">>, <<"L", "2", NUL>> }

\* the names of the three sections
SectionNames == {"annoy_metric_type", "annoy_dim", "annoy_index_data"}

\* BinarySets that hold the three named sections; absent is the set of names
\* for which GetByName returns nullptr
Complete ==
    [annoy_metric_type : BlobMetrics,
     annoy_dim : {ds.dim : ds \in Datasets},
     annoy_index_data : Regions,
     absent : {{}}]

\* BinarySets that lack one section, the other two being those of an index
\* of the "L2" metric over a dataset
Lacking ==
    { [annoy_metric_type |-> MetricL2,
       annoy_dim |-> ds.dim,
       annoy_index_data |->
           [count |-> ds.rows, items |-> ItemsOf(ds), n_trees |-> MaxTrees],
       absent |-> {name}] :
         ds \in {d \in Datasets : d.dim = 1 /\ d.rows = 1}, name \in SectionNames }

\* BinarySets handed to Load
Blobs == Complete \cup Lacking

\* query datasets handed to Query: dim, rows, row-major tensor
Queries ==
    { [dim |-> 1, rows |-> 2, tensor |-> <<0, 2>>],
      [dim |-> 2, rows |-> 1, tensor |-> <<1, 1>>] }

\* the largest number of rows of a dataset
MaxRows == CHOOSE n \in {ds.rows : ds \in Datasets} :
              \A ds \in Datasets : ds.rows <= n

\* config[IndexParams::search_k]: a budget of one visit, and one that covers
\* every leaf of every tree
SearchKs == {1, MaxTrees * MaxRows}

\* what memory that was never written may hold, an id and a distance: the
\* sentinel's bits, zeroes, or what an earlier vector left there
Uninitialized ==
    { [id |-> 0 - 1, distance |-> PosInf], [id |-> 0, distance |-> 0],
      [id |-> 1, distance |-> 0] }

\* what a float read past the end of the query tensor may hold
Stray == {0, 1}

\* blacklists handed to SetBlacklist
Blacklists == { {}, {1}, {1, 2} }

----------------------------------------------------------------------------
(* What a call hands back: the exception it threw, or its value.           *)

OK == "OK"
NotInitialized == "NotInitialized"
UnsupportedMetric == "UnsupportedMetric"
CorruptIndex == "CorruptIndex"
NullDereference == "NullDereference"
JsonTypeError == "JsonTypeError"

Returns(op, value) == [op |-> op, status |-> OK, value |-> value]
Throws(op, what) == [op |-> op, status |-> what, value |-> <<>>]

Init ==
    /\ index_ = NULL
    /\ metric_type_ = <<>>
    /\ index_size_ = NoIndexSize
    /\ bitset_ = {}
    /\ ret = Returns("IndexAnnoy", <<>>)
    /\ omp = <<>>
    /\ request = <<>>

----------------------------------------------------------------------------
(* The search of one query vector (annoylib.h, modelled from the           *)
(* specification's query engine): the trees are walked closest-first until *)
(* search_k leaf items have been visited over all trees, the candidates    *)
(* are deduplicated, blacklisted ids removed, and the n closest returned   *)
(* in ascending distance, ties by smaller id.                              *)

\* item i of ix precedes item j in the order (distance to v, id, position)
Closer(ix, v, i, j) ==
    LET di == Distance(ix.variant, ix.items[i].vector, v)
        dj == Distance(ix.variant, ix.items[j].vector, v)
    IN  \/ di < dj
        \/ di = dj /\ ix.items[i].id < ix.items[j].id
        \/ di = dj /\ ix.items[i].id = ix.items[j].id /\ i < j

\* the positions of S in that order
RECURSIVE Ordered(_, _, _)
Ordered(ix, v, S) ==
    IF S = {} THEN <<>>
    ELSE LET first == CHOOSE i \in S : \A j \in S \ {i} : Closer(ix, v, i, j)
         IN  <<first>> \o Ordered(ix, v, S \ {first})

\* how many distinct items a budget of search_k visits over n_trees trees
Visited(ix, search_k) ==
    IF ix.n_trees = 0 THEN 0
    ELSE Min(Len(ix.items), (search_k + ix.n_trees - 1) \div ix.n_trees)

\* index_->get_nns_by_vector(v, n, search_k, &result, &distances, blacklist)
get_nns_by_vector(ix, v, n, search_k, blacklist) ==
    LET order == Ordered(ix, v, 1..Len(ix.items))
        seen == SubSeq(order, 1, Visited(ix, search_k))
        kept == SelectSeq(seen, LAMBDA i : ix.items[i].id \notin blacklist)
        best == SubSeq(kept, 1, Min(n, Len(kept)))
    IN  [j \in 1..Len(best) |->
            [id |-> ix.items[best[j]].id,
             distance |-> Distance(ix.variant, ix.items[best[j]].vector, v)]]

----------------------------------------------------------------------------
(* IndexAnnoy's methods.                                                   *)

\* Count(): index_->get_n_items(), of a non-null index_
CountOf(index) == get_n_items(index[1])

\* Dim(): index_->get_dim(), of a non-null index_
DimOf(index) == get_dim(index[1])

\* the BinarySet Serialize() assembles: metric_type_.length() bytes of
\* metric_type_, Dim() and the index region
BinarySetOf(index, metric_type) ==
    [annoy_metric_type |-> SubSeq(metric_type, 1, Len(metric_type)),
     annoy_dim |-> DimOf(index),
     annoy_index_data |-> get_index(index[1]),
     absent |-> {}]

\* a process that no call has ended: only such a process makes calls
Running == ret.status # NullDereference

\* if (!index_) KNOWHERE_THROW_MSG("index not initialize ...")
NotInitialize(op) ==
    /\ ret' = Throws(op, NotInitialized)
    /\ UNCHANGED <<index_, metric_type_, index_size_, bitset_>>

Serialize ==
    /\ Running
    /\ UNCHANGED <<omp, request>>
    /\ IF index_ = NULL THEN NotInitialize("Serialize")
       ELSE /\ ret' = Returns("Serialize", BinarySetOf(index_, metric_type_))
            /\ UNCHANGED <<index_, metric_type_, index_size_, bitset_>>

\* metric_type_ after the resize and memcpy of Load
LoadedMetricType(old, bytes) == memcpy(resize(old, Len(bytes) + 1), bytes)

\* a dispatch that falls back to Euclidean for a name it does not know
DispatchDefaultsToL2(metric_type, dim) ==
    IF metric_type = MetricIP THEN <<AnnoyIndex(DotProduct, dim)>>
    ELSE <<AnnoyIndex(Euclidean, dim)>>

\* Load's if / else if / else on the metric name: <<the new AnnoyIndex>>, or
\* <<>> when the else branch throws
LoadDispatch(metric_type, dim) ==
    IF metric_type = MetricL2 THEN <<AnnoyIndex(Euclidean, dim)>>
    ELSE IF metric_type = MetricIP THEN <<AnnoyIndex(DotProduct, dim)>>
    ELSE <<>>

\* BuildAll's if / else if / else on the metric name, likewise
BuildDispatch(metric_type, dim) ==
    IF metric_type = MetricL2 THEN <<AnnoyIndex(Euclidean, dim)>>
    ELSE IF metric_type = MetricIP THEN <<AnnoyIndex(DotProduct, dim)>>
    ELSE <<>>

\* a throw that drops the index held so far
MetricNotSupportedResets(op, index) ==
    [index_ |-> NULL, ret |-> Throws(op, UnsupportedMetric)]

\* KNOWHERE_THROW_MSG("metric not supported " + metric_type_): the throw
\* leaves index_ as it was
MetricNotSupported(op, index) ==
    [index_ |-> index, ret |-> Throws(op, UnsupportedMetric)]

\* Load from the metric dispatch on: index_ is assigned, then load_index runs
LoadIndex(made, data) ==
    LET loaded == load_index(made, data)
    IN  [index_ |-> <<loaded.ix>>,
         ret |-> IF loaded.ok THEN Returns("Load", <<>>)
                 ELSE Throws("Load", CorruptIndex)]

\* metric_type->size, dim_data->size, index_data->data of a section that
\* GetByName did not find: the read through the null pointer ends the process,
\* the members being what the statements before it made them
Dereferenced(index, metric_type) ==
    [index_ |-> index, metric_type_ |-> metric_type,
     ret |-> Throws("Load", NullDereference)]

\* the members and the outcome after Load(index_binary) on an object whose
\* members are index and metric_type
LoadResult(index, metric_type, index_binary) ==
    LET name == LoadedMetricType(metric_type, index_binary.annoy_metric_type)
        made == LoadDispatch(name, index_binary.annoy_dim)
        rest == IF made = <<>> THEN MetricNotSupported("Load", index)
                ELSE IF "annoy_index_data" \in index_binary.absent
                THEN Dereferenced(made, name)
                ELSE LoadIndex(made[1], index_binary.annoy_index_data)
    IN  IF "annoy_metric_type" \in index_binary.absent
        THEN Dereferenced(index, metric_type)
        ELSE IF "annoy_dim" \in index_binary.absent
        THEN Dereferenced(index, name)
        ELSE [index_ |-> rest.index_, metric_type_ |-> name, ret |-> rest.ret]

Load(index_binary) ==
    /\ Running
    /\ UNCHANGED <<omp, request>>
    /\ LET after == LoadResult(index_, metric_type_, index_binary)
       IN  /\ index_' = after.index_
           /\ metric_type_' = after.metric_type_
           /\ ret' = after.ret
           /\ UNCHANGED <<index_size_, bitset_>>

\* the for loop of BuildAll: add_item for every row
RECURSIVE AddItems(_, _, _)
AddItems(ix, ds, rows) ==
    IF rows = 0 THEN ix
    ELSE add_item(AddItems(ix, ds, rows - 1), ds.ids[rows],
                  Row(ds.tensor, ds.dim, ds.dim * (rows - 1), 0))

\* BuildAll from the metric dispatch on: index_ is assigned, the items are
\* added, then config[n_trees].get<int64_t>() is read and build() runs
BuildIndex(made, ds, config) ==
    LET filled == AddItems(made, ds, ds.rows)
    IN  IF config.n_trees = NoValue
        THEN [index_ |-> <<filled>>, ret |-> Throws("BuildAll", JsonTypeError)]
        ELSE [index_ |-> <<build(filled, config.n_trees[1])>>,
              ret |-> Returns("BuildAll", <<>>)]

\* a BuildAll that never takes the early return
NeverBuilt(index) == FALSE

\* if (index_) return;
AlreadyBuilt(index) == index # NULL

\* the members and the outcome after BuildAll(ds, config) on an object whose
\* members are index and metric_type
BuildAllResult(index, metric_type, ds, config) ==
    IF AlreadyBuilt(index)
    THEN [index_ |-> index, metric_type_ |-> metric_type,
          ret |-> Returns("BuildAll", <<>>)]
    ELSE IF config.metric_type = NoValue
    THEN [index_ |-> index, metric_type_ |-> metric_type,
          ret |-> Throws("BuildAll", JsonTypeError)]
    ELSE LET name == config.metric_type[1]
             made == BuildDispatch(name, ds.dim)
             rest == IF made = <<>> THEN MetricNotSupported("BuildAll", index)
                     ELSE BuildIndex(made[1], ds, config)
         IN  [index_ |-> rest.index_, metric_type_ |-> name, ret |-> rest.ret]

BuildAll(ds, config) ==
    /\ Running
    /\ UNCHANGED <<omp, request>>
    /\ LET after == BuildAllResult(index_, metric_type_, ds, config)
       IN  /\ index_' = after.index_
           /\ metric_type_' = after.metric_type_
           /\ ret' = after.ret
           /\ UNCHANGED <<index_size_, bitset_>>

\* a copy that starts one entry too far into the vectors
BlockOffByOne(found, k, junk) ==
    [j \in 1..k |-> IF j + 1 <= Len(found) THEN found[j + 1] ELSE junk]

\* the k slots Query copies out of result.data() / distances.data() for one
\* row: the entries found, then memory the vectors reserved but never wrote
Block(found, k, junk) ==
    [j \in 1..k |-> IF j <= Len(found) THEN found[j] ELSE junk]

\* the rows' blocks one after the other, row 0 first
RECURSIVE Blocks(_, _, _, _, _, _, _, _)
Blocks(ix, blacklist, q, rows, k, search_k, junk, g) ==
    IF rows = 0 THEN <<>>
    ELSE Blocks(ix, blacklist, q, rows - 1, k, search_k, junk, g)
         \o Block(get_nns_by_vector(ix, Row(q.tensor, ix.f, q.dim * (rows - 1), g),
                                    k, search_k, blacklist),
                  k, junk)

\* the Dataset Query returns: meta::IDS and meta::DISTANCE
ResultOf(slots) ==
    [ids |-> [j \in 1..Len(slots) |-> slots[j].id],
     distances |-> [j \in 1..Len(slots) |-> slots[j].distance]]

\* what Query returns for a non-null index and the blacklist GetBlacklist() gives
QueryResult(index, blacklist, q, k, search_k, junk, g) ==
    ResultOf(Blocks(index[1], blacklist, q, q.rows, k, search_k, junk, g))

Query(q, k, search_k, junk, g) ==
    /\ Running
    /\ UNCHANGED <<omp, request>>
    /\ IF index_ = NULL THEN NotInitialize("Query")
       ELSE /\ ret' = Returns("Query",
                          QueryResult(index_, bitset_, q, k, search_k, junk, g))
            /\ UNCHANGED <<index_, metric_type_, index_size_, bitset_>>

\* a Count that answers 0 for an index that was never built
CountZeroWhenEmpty ==
    /\ Running
    /\ ret' = Returns("Count", IF index_ = NULL THEN 0 ELSE CountOf(index_))
    /\ UNCHANGED <<index_, metric_type_, index_size_, bitset_, omp, request>>

Count ==
    /\ Running
    /\ UNCHANGED <<omp, request>>
    /\ IF index_ = NULL THEN NotInitialize("Count")
       ELSE /\ ret' = Returns("Count", CountOf(index_))
            /\ UNCHANGED <<index_, metric_type_, index_size_, bitset_>>

Dim ==
    /\ Running
    /\ UNCHANGED <<omp, request>>
    /\ IF index_ = NULL THEN NotInitialize("Dim")
       ELSE /\ ret' = Returns("Dim", DimOf(index_))
            /\ UNCHANGED <<index_, metric_type_, index_size_, bitset_>>

\* Dim() * Count() * sizeof(float)
ComputedSize(index) == DimOf(index) * CountOf(index) * SizeofFloat

IndexSize ==
    /\ Running
    /\ UNCHANGED <<omp, request>>
    /\ IF index_size_ # NoIndexSize
       THEN /\ ret' = Returns("IndexSize", index_size_)
            /\ UNCHANGED <<index_, metric_type_, index_size_, bitset_>>
       ELSE IF index_ = NULL THEN NotInitialize("IndexSize")
       ELSE /\ index_size_' = ComputedSize(index_)
            /\ ret' = Returns("IndexSize", ComputedSize(index_))
            /\ UNCHANGED <<index_, metric_type_, bitset_>>

\* VecIndex::SetBlacklist: the bitset GetBlacklist() hands to Query
SetBlacklist(bitset) ==
    /\ Running
    /\ UNCHANGED <<omp, request>>
    /\ bitset_' = bitset
    /\ ret' = Returns("SetBlacklist", <<>>)
    /\ UNCHANGED <<index_, metric_type_, index_size_>>

Next ==
    \/ Serialize
    \/ \E index_binary \in Blobs : Load(index_binary)
    \/ \E ds \in Datasets, config \in BuildConfigs : BuildAll(ds, config)
    \/ \E q \in Queries, k \in 1..MaxTopK, search_k \in SearchKs,
          junk \in Uninitialized, g \in Stray : Query(q, k, search_k, junk, g)
    \/ Count
    \/ Dim
    \/ IndexSize
    \/ \E bitset \in Blacklists : SetBlacklist(bitset)

Spec == Init /\ [][Next]_vars

----------------------------------------------------------------------------
(* Query under `#pragma omp parallel for`: every iteration i of the loop   *)
(* is a worker that runs the search into its own vectors and then the two  *)
(* memcpy calls, interleaved in any way with the other iterations.  omp    *)
(* holds the parallel region of the Query in flight: the call's inputs,    *)
(* the two malloc'ed buffers, every worker's place and vectors, and, for   *)
(* every buffer position, the workers that have written it.                *)

\* an offset into the output buffers that forgets the block length
OffsetUnscaled(k, i) == i

\* p_id + k * i, p_dist + k * i: where worker i's block starts
Offset(k, i) == k * i

\* the workers of the region: i = 0 .. rows - 1
Workers(o) == 0..(o.q.rows - 1)

\* the state after GETTENSOR, the reads of config, the two malloc calls
\* and GetBlacklist(), on entry to the parallel loop
Region(q, k, search_k, junk, g) ==
    [q |-> q, k |-> k, search_k |-> search_k, junk |-> junk, g |-> g,
     p_id |-> [pos \in 1..(q.rows * k) |-> junk.id],
     p_dist |-> [pos \in 1..(q.rows * k) |-> junk.distance],
     pc |-> [i \in 0..(q.rows - 1) |-> "search"],
     found |-> [i \in 0..(q.rows - 1) |-> <<>>],
     id_writers |-> [pos \in 1..(q.rows * k) |-> {}],
     dist_writers |-> [pos \in 1..(q.rows * k) |-> {}]]

\* Query up to the parallel loop
QueryBegin(q, k, search_k, junk, g) ==
    /\ Running
    /\ omp = <<>>
    /\ UNCHANGED request
    /\ IF index_ = NULL THEN NotInitialize("Query") /\ UNCHANGED omp
       ELSE /\ omp' = <<Region(q, k, search_k, junk, g)>>
            /\ UNCHANGED <<index_, metric_type_, index_size_, bitset_, ret>>

\* worker i: reserve(k) twice and get_nns_by_vector: the k entries that
\* start at result.data() and distances.data()
Search(i) ==
    /\ omp # <<>>
    /\ i \in Workers(omp[1])
    /\ omp[1].pc[i] = "search"
    /\ LET o == omp[1]
           v == Row(o.q.tensor, index_[1].f, o.q.dim * i, o.g)
           result == get_nns_by_vector(index_[1], v, o.k, o.search_k, bitset_)
       IN  omp' = <<[o EXCEPT !.found[i] = Block(result, o.k, o.junk),
                              !.pc[i] = "ids"]>>
    /\ UNCHANGED <<index_, metric_type_, index_size_, bitset_, ret, request>>

\* a buffer after memcpy(buffer + off, from, k entries)
Written(buffer, off, from, k) ==
    [pos \in DOMAIN buffer |->
        IF pos - off \in 1..k THEN from[pos - off] ELSE buffer[pos]]

\* the writers of a buffer after worker i wrote k entries from off on
WrittenBy(writers, off, k, i) ==
    [pos \in DOMAIN writers |->
        IF pos - off \in 1..k THEN writers[pos] \cup {i} ELSE writers[pos]]

\* worker i: memcpy(p_id + k * i, result.data(), k * sizeof(int64_t))
CopyIds(i) ==
    /\ omp # <<>>
    /\ i \in Workers(omp[1])
    /\ omp[1].pc[i] = "ids"
    /\ LET o == omp[1]
           from == [j \in 1..o.k |-> o.found[i][j].id]
       IN  omp' = <<[o EXCEPT
                       !.p_id = Written(@, Offset(o.k, i), from, o.k),
                       !.id_writers = WrittenBy(@, Offset(o.k, i), o.k, i),
                       !.pc[i] = "distances"]>>
    /\ UNCHANGED <<index_, metric_type_, index_size_, bitset_, ret, request>>

\* worker i: memcpy(p_dist + k * i, distances.data(), k * sizeof(float))
CopyDistances(i) ==
    /\ omp # <<>>
    /\ i \in Workers(omp[1])
    /\ omp[1].pc[i] = "distances"
    /\ LET o == omp[1]
           from == [j \in 1..o.k |-> o.found[i][j].distance]
       IN  omp' = <<[o EXCEPT
                       !.p_dist = Written(@, Offset(o.k, i), from, o.k),
                       !.dist_writers = WrittenBy(@, Offset(o.k, i), o.k, i),
                       !.pc[i] = "done"]>>
    /\ UNCHANGED <<index_, metric_type_, index_size_, bitset_, ret, request>>

\* every iteration has ended
Joined(o) == \A i \in Workers(o) : o.pc[i] = "done"

\* the end of the parallel region: ret_ds with the two buffers is returned
QueryEnd ==
    /\ omp # <<>>
    /\ Joined(omp[1])
    /\ ret' = Returns("Query", [ids |-> omp[1].p_id, distances |-> omp[1].p_dist])
    /\ omp' = <<>>
    /\ UNCHANGED <<index_, metric_type_, index_size_, bitset_, request>>

\* BuildAll and SetBlacklist are called while no Query is in flight
NextPar ==
    \/ \E ds \in Datasets, config \in BuildConfigs :
          omp = <<>> /\ BuildAll(ds, config)
    \/ \E bitset \in Blacklists : omp = <<>> /\ SetBlacklist(bitset)
    \/ \E q \in Queries, k \in 1..MaxTopK, search_k \in SearchKs,
          junk \in Uninitialized, g \in Stray : QueryBegin(q, k, search_k, junk, g)
    \/ \E i \in 0..(MaxRows - 1) : Search(i)
    \/ \E i \in 0..(MaxRows - 1) : CopyIds(i)
    \/ \E i \in 0..(MaxRows - 1) : CopyDistances(i)
    \/ QueryEnd

SpecPar == Init /\ [][NextPar]_vars

----------------------------------------------------------------------------
(* milvus::server::DescribeTableRequest                                    *)
(* (core/src/server/delivery/request/DescribeTableRequest.cpp).            *)
(*                                                                         *)
(* request holds one request object: collection_name_, the caller's        *)
(* CollectionSchema that schema_ refers to, and, once OnExecute has run,   *)
(* the Status it returned together with what its collaborators answered in *)
(* that run: whether ValidateCollectionName threw, what the DB's           *)
(* DescribeTable did, and which fault-injection points were enabled.       *)

\* Status(code, message)
Status(code, text, arg) == [code |-> code, message |-> [text |-> text, arg |-> arg]]

\* Status::OK()
StatusOK == Status(OK, "", "")

SERVER_UNEXPECTED_ERROR == "SERVER_UNEXPECTED_ERROR"
SERVER_TABLE_NOT_EXIST == "SERVER_TABLE_NOT_EXIST"
SERVER_INVALID_TABLE_NAME == "SERVER_INVALID_TABLE_NAME"
DB_NOT_FOUND == "DB_NOT_FOUND"
DB_META_TRANSACTION_FAILED == "DB_META_TRANSACTION_FAILED"

\* TableNotExistMsg(collection_name_)
TableNotExistMsg(name) == [text |-> "TableNotExistMsg", arg |-> name]

\* collection names a request is created with: the empty name, a name that
\* starts with a digit, and three names ValidateCollectionName accepts
CollectionNames == {"", "1c", "c1", "p1", "gone"}

\* ValidationUtil::ValidateCollectionName: the empty name and a name whose
\* first character is neither a letter nor an underscore are invalid
ValidateCollectionName(name) ==
    IF name = ""
    THEN Status(SERVER_INVALID_TABLE_NAME, "Collection name should not be empty.", "")
    ELSE IF name = "1c"
    THEN Status(SERVER_INVALID_TABLE_NAME,
                "Invalid collection name. The first character must be an underscore or letter.",
                name)
    ELSE StatusOK

\* the caller's CollectionSchema before the request runs: newly constructed,
\* or still holding what an earlier request described
Schemas ==
    { [collection_name_ |-> "", dimension_ |-> 0, index_file_size_ |-> 0,
       metric_type_ |-> 0],
      [collection_name_ |-> "old", dimension_ |-> 8, index_file_size_ |-> 64,
       metric_type_ |-> 2] }

\* engine::meta::CollectionSchema table_schema; collection_id_ = collection_name_
TableSchema(name) ==
    [collection_id_ |-> name, dimension_ |-> 0, index_file_size_ |-> 0,
     metric_type_ |-> 0, owner_table_ |-> ""]

\* what DBWrapper::DB()->DescribeTable(table_schema) may do: throw, fail with
\* a status, or fill table_schema in for a root collection or for a partition
\* (owner_table_ names its root collection)
DescribeTable(table_schema) ==
    { [throws |-> TRUE, status |-> StatusOK, table_schema |-> table_schema],
      [throws |-> FALSE, status |-> Status(DB_NOT_FOUND, "Table not found", ""),
       table_schema |-> table_schema],
      [throws |-> FALSE,
       status |-> Status(DB_META_TRANSACTION_FAILED, "Meta transaction failed", ""),
       table_schema |-> table_schema],
      [throws |-> FALSE, status |-> StatusOK,
       table_schema |-> [table_schema EXCEPT !.dimension_ = 128,
                                             !.index_file_size_ = 1024,
                                             !.metric_type_ = 1]],
      [throws |-> FALSE, status |-> StatusOK,
       table_schema |-> [table_schema EXCEPT !.dimension_ = 32768,
                                             !.index_file_size_ = 1024,
                                             !.metric_type_ = 1,
                                             !.owner_table_ = "c1"]] }

\* the two fault-injection points of OnExecute
Failpoints == {"describe_table_fail", "throw_std_exception"}

\* what the collaborators do in one run of OnExecute
Runs(name) ==
    [validation_throws : BOOLEAN,
     db : DescribeTable(TableSchema(name)),
     failpoints : SUBSET Failpoints]

\* DescribeTableRequest::Create / the constructor
Create(collection_name, schema) ==
    /\ request' = <<[collection_name_ |-> collection_name, schema_ |-> schema,
                     before |-> schema, returned |-> <<>>]>>
    /\ UNCHANGED <<index_, metric_type_, index_size_, bitset_, ret, omp>>

\* catch (std::exception& ex): return Status(SERVER_UNEXPECTED_ERROR, ex.what())
Caught(schema, queried) ==
    [status |-> Status(SERVER_UNEXPECTED_ERROR, "std::exception", ""),
     schema_ |-> schema, queried |-> queried]

\* a return before schema_ is written
Return(status, schema, queried) ==
    [status |-> status, schema_ |-> schema, queried |-> queried]

\* a lookup failure handed on as the lookup reported it, whatever its code
FailedUnmapped(status, name) == status

\* if (!status.ok()): DB_NOT_FOUND becomes SERVER_TABLE_NOT_EXIST, any other
\* status is returned as it is
Failed(status, name) ==
    IF status.code = DB_NOT_FOUND
    THEN [code |-> SERVER_TABLE_NOT_EXIST, message |-> TableNotExistMsg(name)]
    ELSE status

\* a description that leaves the caller's dimension as it was
DescribedWithoutDimension(schema, table_schema) ==
    [schema EXCEPT !.collection_name_ = table_schema.collection_id_,
                   !.index_file_size_ = table_schema.index_file_size_,
                   !.metric_type_ = table_schema.metric_type_]

\* the four assignments to schema_; static_cast<int64_t> of the uint16_t
\* dimension_ keeps its value
Described(schema, table_schema) ==
    [schema EXCEPT !.collection_name_ = table_schema.collection_id_,
                   !.dimension_ = table_schema.dimension_ % 65536,
                   !.index_file_size_ = table_schema.index_file_size_,
                   !.metric_type_ = table_schema.metric_type_]

\* the status of the lookup after the two statements that follow it: the
\* describe_table_fail point replaces whatever the DB reported
Injected(status, failpoints) ==
    IF "describe_table_fail" \in failpoints
    THEN Status(SERVER_UNEXPECTED_ERROR, "", "")
    ELSE status

\* OnExecute from step 2 on, the DB having answered without throwing
Step2(name, schema, db, failpoints) ==
    LET status == Injected(db.status, failpoints)
    IN  IF "throw_std_exception" \in failpoints THEN Caught(schema, TRUE)
        ELSE IF status.code # OK THEN Return(Failed(status, name), schema, TRUE)
        ELSE IF db.table_schema.owner_table_ # ""
        THEN Return([code |-> SERVER_INVALID_TABLE_NAME,
                     message |-> TableNotExistMsg(name)], schema, TRUE)
        ELSE Return(StatusOK, Described(schema, db.table_schema), TRUE)

\* the Status OnExecute returns, the caller's schema afterwards, and whether
\* DescribeTable was called
OnExecuteResult(name, schema, run) ==
    IF run.validation_throws THEN Caught(schema, FALSE)
    ELSE IF ValidateCollectionName(name).code # OK
    THEN Return(ValidateCollectionName(name), schema, FALSE)
    ELSE IF run.db.throws THEN Caught(schema, TRUE)
    ELSE Step2(name, schema, run.db, run.failpoints)

OnExecute(run) ==
    /\ request # <<>>
    /\ request[1].returned = <<>>
    /\ run \in Runs(request[1].collection_name_)
    /\ LET r == request[1]
           after == OnExecuteResult(r.collection_name_, r.schema_, run)
       IN  request' = <<[r EXCEPT !.schema_ = after.schema_,
                                  !.returned = <<[status |-> after.status,
                                                  queried |-> after.queried,
                                                  run |-> run]>>]>>
    /\ UNCHANGED <<index_, metric_type_, index_size_, bitset_, ret, omp>>

NextDescribe ==
    \/ \E collection_name \in CollectionNames, schema \in Schemas :
          Create(collection_name, schema)
    \/ \E name \in CollectionNames : \E run \in Runs(name) : OnExecute(run)

SpecDescribe == Init /\ [][NextDescribe]_vars

----------------------------------------------------------------------------
(* Properties.                                                             *)

Built == index_ # NULL
Empty == index_ = NULL

\* C1: once the index is Built, a BuildAll call (whatever dataset and config)
\* returns without error and leaves the index, its metric name and the cached
\* size as they were.
BuildAllIdempotent ==
    [][(Built /\ ret'.op = "BuildAll") =>
          /\ ret'.status = OK
          /\ UNCHANGED <<index_, metric_type_, index_size_, bitset_>>]_vars

\* C1 witness: BuildAll has just returned on an index that was Built before the
\* call (its size had been computed and cached by an earlier IndexSize).
BuildAllOnBuilt ==
    /\ ret.op = "BuildAll"
    /\ ret.status = OK
    /\ Built
    /\ index_size_ # NoIndexSize

\* the blobs Serialize returns that hold a metric name BuildAll accepts
Supported(metric_type) == metric_type \in {MetricL2, MetricIP}

\* C2: whenever Serialize has returned the blob of a Built index (its trees
\* built, its metric L2 or IP), Load of that blob on a fresh index succeeds and
\* yields an index with the same Count(), Dim() and Query results.
RoundTripFidelity ==
    (/\ ret.op = "Serialize" /\ ret.status = OK
     /\ Supported(metric_type_) /\ index_[1].n_trees > 0) =>
        LET fresh == LoadResult(NULL, <<>>, ret.value)
        IN  /\ fresh.ret.status = OK
            /\ fresh.index_ # NULL
            /\ CountOf(fresh.index_) = CountOf(index_)
            /\ DimOf(fresh.index_) = DimOf(index_)
            /\ \A q \in Queries, k \in 1..MaxTopK, search_k \in SearchKs,
                  junk \in Uninitialized, g \in Stray :
                  QueryResult(fresh.index_, bitset_, q, k, search_k, junk, g)
                      = QueryResult(index_, bitset_, q, k, search_k, junk, g)

\* C3: a BuildAll call on an Empty index either returns normally with every
\* row indexed and the trees built, or fails and leaves the index Empty.
NoPartialBuild ==
    [][\A ds \in Datasets, config \in BuildConfigs :
          (Empty /\ ret'.op = "BuildAll" /\ BuildAll(ds, config)) =>
              \/ /\ ret'.status = OK
                 /\ Built'
                 /\ CountOf(index_') = ds.rows
                 /\ index_'[1].n_trees = config.n_trees[1]
              \/ /\ ret'.status # OK
                 /\ Empty']_vars

\* C4: a Load that fails on an Empty index leaves the index Empty.
FailedLoadLeavesEmpty ==
    [][(Empty /\ ret'.op = "Load" /\ ret'.status # OK) => Empty']_vars

\* the metric names BuildAll does not recognise
Unrecognized(config) ==
    /\ config.metric_type # NoValue
    /\ ~Supported(config.metric_type[1])

\* C5: BuildAll on an Empty index with an unrecognized metric name fails with
\* UnsupportedMetric and leaves the index Empty; and the BuildAll call that
\* follows such a failure, with a supported metric and n_trees, builds the
\* whole dataset under that metric.
UnsupportedMetricLeavesEmpty ==
    [][(Empty /\ ret'.op = "BuildAll") =>
       \A ds \in Datasets, config \in BuildConfigs :
          /\ (Unrecognized(config) /\ BuildAll(ds, config)) =>
                 /\ ret'.status = UnsupportedMetric
                 /\ Empty'
          /\ (/\ ret.op = "BuildAll" /\ ret.status = UnsupportedMetric
              /\ config.metric_type # NoValue /\ Supported(config.metric_type[1])
              /\ config.n_trees # NoValue
              /\ BuildAll(ds, config)) =>
                 /\ ret'.status = OK
                 /\ Built'
                 /\ CountOf(index_') = ds.rows
                 /\ DimOf(index_') = ds.dim
                 /\ index_'[1].n_trees = config.n_trees[1]
                 /\ metric_type_' = config.metric_type[1]]_vars

\* C5 witness: BuildAll with metric "cosine" has just failed on an Empty index.
CosineRejected ==
    /\ ret.op = "BuildAll"
    /\ ret.status = UnsupportedMetric
    /\ Empty
    /\ metric_type_ = <<"c", "o", "s", "i", "n", "e">>

\* C6: Load of a blob whose metric_type section holds exactly the bytes "L2"
\* (resp. "IP") does not fail with UnsupportedMetric and selects the Euclidean
\* (resp. DotProduct) variant.
LoadComparesMetricByLength ==
    [][ret'.op = "Load" =>
       \A index_binary \in Blobs :
          (Supported(index_binary.annoy_metric_type) /\ Load(index_binary)) =>
              /\ ret'.status # UnsupportedMetric
              /\ Built'
              /\ index_'[1].variant =
                     IF index_binary.annoy_metric_type = MetricL2
                     THEN Euclidean ELSE DotProduct]_vars

\* C7: while the index is Empty, Serialize, Query, Count and Dim each fail
\* with NotInitialized and change nothing.
EmptyIndexNotInitialized ==
    [][(Empty /\ ret'.op \in {"Serialize", "Query", "Count", "Dim"}) =>
          /\ ret'.status = NotInitialized
          /\ UNCHANGED <<index_, metric_type_, index_size_, bitset_>>]_vars

\* C7 witness: Count has just failed with NotInitialized on an Empty index.
CountOnEmpty ==
    /\ Empty
    /\ ret.op = "Count"
    /\ ret.status = NotInitialized

\* C8: once the index is Built its contents never change, whatever is called.
BuiltIsImmutable ==
    [][Built => index_' = index_]_vars

\* C9: once the index is Built it is Built in every later state.
NeverBackToEmpty ==
    [][Built => Built']_vars

\* C9 witness: a call has just failed on an index that was Built before it.
FailedCallOnBuilt ==
    /\ Built
    /\ ret.op = "Load"
    /\ ret.status = UnsupportedMetric

\* C10: every IndexSize() call on a Built index returns Dim() * Count() * 4 of
\* the index currently held.
IndexSizeIsDimCountFloat ==
    (ret.op = "IndexSize" /\ ret.status = OK) =>
        ret.value = DimOf(index_) * CountOf(index_) * SizeofFloat

\* a Built index whose trees are built
Searchable == Built /\ index_[1].n_trees > 0

\* the sentinel of an unused result slot
Sentinel == [id |-> 0 - 1, distance |-> PosInf]

\* slot j of row r (both 1-based) of a result with k slots a row
SlotOf(result, k, r, j) ==
    [id |-> result.ids[k * (r - 1) + j],
     distance |-> result.distances[k * (r - 1) + j]]

\* what the engine finds for row r of q on the index held
FoundFor(q, r, k, search_k, g) ==
    get_nns_by_vector(index_[1], Row(q.tensor, index_[1].f, q.dim * (r - 1), g),
                      k, search_k, bitset_)

\* C11: a Query on a Built index with its trees does not fail, and in every row's block the
\* slots after the entries the engine found hold the sentinel (-1, +infinity).
KSaturationPadsWithSentinel ==
    [][(Searchable /\ ret'.op = "Query") =>
       /\ ret'.status = OK
       /\ \A q \in Queries, k \in 1..MaxTopK, search_k \in SearchKs,
             junk \in Uninitialized, g \in Stray :
             Query(q, k, search_k, junk, g) =>
                 \A r \in 1..q.rows, j \in 1..k :
                     j > Len(FoundFor(q, r, k, search_k, g)) =>
                         SlotOf(ret'.value, k, r, j) = Sentinel]_vars

\* a blob that lacks a section, or whose index data does not hold the items
\* it counts at the dimension it names
Malformed(index_binary) ==
    \/ index_binary.absent # {}
    \/ ~WellFormed(index_binary.annoy_index_data, index_binary.annoy_dim)

\* C12: Load of a malformed blob fails with CorruptIndex.
LoadValidatesBlob ==
    [][ret'.op = "Load" =>
       \A index_binary \in Blobs :
           (Malformed(index_binary) /\ Load(index_binary)) =>
               ret'.status = CorruptIndex]_vars

\* the error of the specification's taxonomy for a vector of the wrong length
DimensionMismatch == "DimensionMismatch"

\* C13: a Query whose vectors have another dimension than the Built index
\* fails with DimensionMismatch.
QueryChecksDimension ==
    [][(Searchable /\ ret'.op = "Query") =>
       \A q \in Queries, k \in 1..MaxTopK, search_k \in SearchKs,
          junk \in Uninitialized, g \in Stray :
          (q.dim # DimOf(index_) /\ Query(q, k, search_k, junk, g)) =>
              ret'.status = DimensionMismatch]_vars

\* C14: no id of the blacklist appears in the ids a Query returns.
BlacklistExcluded ==
    (Searchable /\ ret.op = "Query" /\ ret.status = OK) =>
        \A j \in 1..Len(ret.value.ids) : ret.value.ids[j] \notin bitset_

\* a query dataset of the single row v
OneRow(v) == [dim |-> Len(v), rows |-> 1, tensor |-> v]

\* the distances of the stored items that carry the id
DistancesOf(ix, id, v) ==
    { Distance(ix.variant, ix.items[i].vector, v) :
         i \in {n \in 1..Len(ix.items) : ix.items[n].id = id} }

\* a Query with the stored vector of item i, k slots and a budget that covers
\* every leaf of every tree, answers in its first slot an item at distance 0
RetrievesItself(i, k, junk) ==
    LET ix == index_[1]
        v == ix.items[i].vector
        result == QueryResult(index_, bitset_, OneRow(v), k,
                              ix.n_trees * Len(ix.items), junk, 0)
    IN  /\ result.distances[1] = 0
        /\ 0 \in DistancesOf(ix, result.ids[1], v)

\* C15 as stated: in an index whose trees are built, every stored item that
\* is not blacklisted retrieves itself.
SelfRetrieval ==
    Searchable =>
        \A i \in 1..Len(index_[1].items), k \in 1..MaxTopK, junk \in Uninitialized :
            index_[1].items[i].id \notin bitset_ => RetrievesItself(i, k, junk)

\* C15 amended: in a Euclidean index whose trees are built, every stored item
\* that is not blacklisted retrieves itself.
SelfRetrievalL2 ==
    (Searchable /\ index_[1].variant = Euclidean) =>
        \A i \in 1..Len(index_[1].items), k \in 1..MaxTopK, junk \in Uninitialized :
            index_[1].items[i].id \notin bitset_ => RetrievesItself(i, k, junk)

\* C15 witness: a Query on a built Euclidean index that holds item 1, with
\* nothing blacklisted, has just answered item 1 at distance 0 in its first slot.
ItemOneRetrieved ==
    /\ Searchable
    /\ index_[1].variant = Euclidean
    /\ bitset_ = {}
    /\ ret.op = "Query"
    /\ ret.status = OK
    /\ ret.value.ids[1] = 1
    /\ ret.value.distances[1] = 0
    /\ \E i \in 1..Len(index_[1].items) : index_[1].items[i].id = 1

\* the worker whose block holds a buffer position, for blocks of k entries
OwnerOf(pos, k) == (pos - 1) \div k

ReadsHaveNoEffect ==
    [][Searchable =>
       /\ ret'.op \in {"Query", "Serialize", "Count", "Dim"} =>
              UNCHANGED <<index_, metric_type_, index_size_, bitset_>>
       /\ ret'.op = "IndexSize" => UNCHANGED <<index_, metric_type_, bitset_>>
       /\ ret'.op = "Query" =>
              \A q \in Queries, k \in 1..MaxTopK, search_k \in SearchKs,
                 junk \in Uninitialized, g \in Stray :
                 Query(q, k, search_k, junk, g) =>
                     \A again \in Uninitialized :
                         QueryResult(index_', bitset_', q, k, search_k, again, g)
                             = ret'.value]_vars

\* C18: whenever the index is Built, the metric name Serialize would write is
\* "L2" exactly when the index is the Euclidean variant and "IP" exactly when
\* it is the DotProduct variant.
MetricNameMatchesVariant ==
    Built =>
        /\ metric_type_ = MetricL2 <=> index_[1].variant = Euclidean
        /\ metric_type_ = MetricIP <=> index_[1].variant = DotProduct

\* OnExecute has returned
Executed == request # <<>> /\ request[1].returned # <<>>

\* the four output fields of a caller's schema
Fields(schema) ==
    <<schema.collection_name_, schema.dimension_, schema.index_file_size_,
      schema.metric_type_>>

\* the same four fields as the DB filled them in
FieldsOf(table_schema) ==
    <<table_schema.collection_id_, table_schema.dimension_,
      table_schema.index_file_size_, table_schema.metric_type_>>

\* C19: when OnExecute has returned a status that is not OK the caller's
\* schema is what it was before the call; when it has returned OK the
\* schema's name, dimension, index_file_size and metric_type are the values
\* the DB returned.
SchemaWrittenOnlyOnSuccess ==
    Executed =>
        LET r == request[1]
            e == r.returned[1]
        IN  /\ e.status.code # OK => r.schema_ = r.before
            /\ e.status.code = OK =>
                   /\ e.queried
                   /\ ~e.run.db.throws
                   /\ e.run.db.status.code = OK
                   /\ Fields(r.schema_) = FieldsOf(e.run.db.table_schema)

\* C19 witness: OnExecute has returned OK and the caller's schema, which held
\* an earlier description, now holds what the DB returned.
SchemaDescribed ==
    /\ Executed
    /\ request[1].returned[1].status.code = OK
    /\ request[1].before.collection_name_ = "old"
    /\ request[1].schema_.collection_name_ = request[1].collection_name_
    /\ request[1].schema_.dimension_ = 128

\* the status the lookup handed to OnExecute's error mapping in a run
LookupStatus(run) == Injected(run.db.status, run.failpoints)

\* C20: the DB is not queried when the validation of the name fails, and the
\* validation's status is returned as it is; a lookup status DB_NOT_FOUND is
\* returned as SERVER_TABLE_NOT_EXIST and any other failed lookup status as it
\* is; a successful lookup of a partition is returned as
\* SERVER_INVALID_TABLE_NAME; an exception thrown by the validation or the
\* lookup is returned as SERVER_UNEXPECTED_ERROR.
ValidatesThenMapsErrors ==
    Executed =>
        LET r == request[1]
            e == r.returned[1]
            run == e.run
            valid == ValidateCollectionName(r.collection_name_)
            thrown == \/ run.validation_throws
                      \/ valid.code = OK /\ run.db.throws
                      \/ /\ valid.code = OK
                         /\ "throw_std_exception" \in run.failpoints
        IN  /\ thrown => e.status.code = SERVER_UNEXPECTED_ERROR
            /\ (~run.validation_throws /\ valid.code # OK) =>
                   ~e.queried /\ e.status = valid
            /\ run.validation_throws => ~e.queried
            /\ (~thrown /\ valid.code = OK) =>
                   /\ e.queried
                   /\ LookupStatus(run).code = DB_NOT_FOUND =>
                          e.status.code = SERVER_TABLE_NOT_EXIST
                   /\ LookupStatus(run).code \notin {OK, DB_NOT_FOUND} =>
                          e.status = LookupStatus(run)
                   /\ (LookupStatus(run).code = OK
                         /\ run.db.table_schema.owner_table_ # "") =>
                          e.status.code = SERVER_INVALID_TABLE_NAME
                   /\ (LookupStatus(run).code = OK
                         /\ run.db.table_schema.owner_table_ = "") =>
                          e.status.code = OK

\* C20 witness: the DB was queried, reported DB_NOT_FOUND with no fault
\* injected, and OnExecute has returned SERVER_TABLE_NOT_EXIST.
NotFoundMapped ==
    /\ Executed
    /\ request[1].returned[1].queried
    /\ request[1].returned[1].run.failpoints = {}
    /\ ~request[1].returned[1].run.db.throws
    /\ request[1].returned[1].run.db.status.code = DB_NOT_FOUND
    /\ request[1].returned[1].status.code = SERVER_TABLE_NOT_EXIST

====
